---- MODULE Spec2Model ----
(***************************************************************************)
(* simplekv: the command dispatcher (src/src/service/command_service.rs),  *)
(* the Service facade with its hook pipeline (src/src/service/mod.rs) and  *)
(* the storage backends behind the Storage trait.                          *)
(***************************************************************************)
EXTENDS Integers, Sequences, FiniteSets, TLC

(***************************************************************************)
(* Bounds of the model.                                                    *)
(***************************************************************************)
Tables == {"t1", "t2"}
Keys == {"k1", "k2"}
\* longest keys / pairs list of a batch command
MaxBatch == 2

\* most hooks registered on one ServiceInner, over its four lists
MaxHooks == 2

(***************************************************************************)
(* Data model: Value, Option, Kvpair, KvError, CommandResponse.            *)
(***************************************************************************)
\* Rust's Option::None (of an Option<Value>, Option<Kvpair>, Option<RequestData>)
NoneOpt == [kind |-> "Option::None", v |-> 0]
\* Value::default(): the Value message with no oneof variant set
DefaultValue == [kind |-> "Default", v |-> 0]
StringValue(i) == [kind |-> "String", v |-> i]
\* Value::from(bool)
BoolValue(b) == [kind |-> "Bool", v |-> IF b THEN 1 ELSE 0]
\* the values clients store in this model
StoredValues == {DefaultValue, StringValue(1), StringValue(2)}

\* Kvpair { key, value: Option<Value> }
Kvpair(k, v) == [key |-> k, value |-> v]
\* Option::unwrap_or_default on a pair's value
UnwrapOrDefault(v) == IF v = NoneOpt THEN DefaultValue ELSE v

NotFound(table, key) == [kind |-> "NotFound", args |-> <<table, key>>]
InvalidCommand(msg) == [kind |-> "InvalidCommand", args |-> <<msg>>]
\* a failure of the backend (sled::Error and the like)
BackendError == [kind |-> "Internal", args |-> <<"backend">>]
NoError == [kind |-> "", args |-> <<>>]

\* From<Value> for CommandResponse
ValueToResponse(v) ==
    [status |-> 200, message |-> <<>>, values |-> <<v>>, pairs |-> <<>>]
\* From<Vec<Value>> for CommandResponse
ValuesToResponse(vs) ==
    [status |-> 200, message |-> <<>>, values |-> vs, pairs |-> <<>>]
\* From<Vec<Kvpair>> for CommandResponse
PairsToResponse(ps) ==
    [status |-> 200, message |-> <<>>, values |-> <<>>, pairs |-> ps]
\* KvError's Display: the words of the variant, then its fields
ErrorToString(e) ==
    CASE e.kind = "NotFound" -> <<"Not found">> \o e.args
      [] e.kind = "InvalidCommand" -> <<"Invalid command">> \o e.args
      [] OTHER -> <<"Internal error">> \o e.args
\* From<KvError> for CommandResponse
ErrorToResponse(e) ==
    [status |-> CASE e.kind = "NotFound" -> 404
                  [] e.kind = "InvalidCommand" -> 400
                  [] OTHER -> 500,
     message |-> ErrorToString(e), values |-> <<>>, pairs |-> <<>>]

\* Result<_, KvError> of a Storage call
Ok(x) == [ok |-> TRUE, val |-> x, err |-> NoError]
Err(e) == [ok |-> FALSE, val |-> NoneOpt, err |-> e]

(***************************************************************************)
(* MemTable: a map of tables, each a map from key to Value, both created   *)
(* on first access.  A store is a function whose domain is the set of      *)
(* tables created so far; a table is a function whose domain is the set of *)
(* keys present.                                                           *)
(***************************************************************************)
EmptyTable == [k \in {} |-> DefaultValue]
\* MemTable::new()
EmptyStore == [t \in {} |-> EmptyTable]

\* MemTable::get_or_create_table: the store with the table in it
GetOrCreateTable(s, table) ==
    IF table \in DOMAIN s THEN s
    ELSE [t \in DOMAIN s \cup {table} |-> IF t = table THEN EmptyTable ELSE s[t]]

Lookup(tbl, key) == IF key \in DOMAIN tbl THEN tbl[key] ELSE NoneOpt
Insert(tbl, key, v) ==
    [k \in DOMAIN tbl \cup {key} |-> IF k = key THEN v ELSE tbl[k]]
Remove(tbl, key) == [k \in DOMAIN tbl \ {key} |-> tbl[k]]

\* Storage::get
StorageGet(s, table, key, fault) ==
    IF fault THEN [result |-> Err(BackendError), store |-> s]
    ELSE LET s1 == GetOrCreateTable(s, table)
         IN  [result |-> Ok(Lookup(s1[table], key)), store |-> s1]

\* Storage::set: the previous value, and the store with the new one
StorageSet(s, table, key, value, fault) ==
    IF fault THEN [result |-> Err(BackendError), store |-> s]
    ELSE LET s1 == GetOrCreateTable(s, table)
         IN  [result |-> Ok(Lookup(s1[table], key)),
              store |-> [s1 EXCEPT ![table] = Insert(@, key, value)]]

\* Storage::contains
StorageContains(s, table, key, fault) ==
    IF fault THEN [result |-> Err(BackendError), store |-> s]
    ELSE LET s1 == GetOrCreateTable(s, table)
         IN  [result |-> Ok(BoolValue(key \in DOMAIN s1[table])), store |-> s1]

\* Storage::del: the removed value, and the store without the key
StorageDel(s, table, key, fault) ==
    IF fault THEN [result |-> Err(BackendError), store |-> s]
    ELSE LET s1 == GetOrCreateTable(s, table)
         IN  [result |-> Ok(Lookup(s1[table], key)),
              store |-> [s1 EXCEPT ![table] = Remove(@, key)]]

\* the pairs of a table in the order the backend iterates its keys
RECURSIVE TablePairs(_, _)
TablePairs(tbl, order) ==
    IF order = <<>> THEN <<>>
    ELSE IF Head(order) \in DOMAIN tbl
         THEN <<Kvpair(Head(order), tbl[Head(order)])>> \o TablePairs(tbl, Tail(order))
         ELSE TablePairs(tbl, Tail(order))

\* Storage::get_all
StorageGetAll(s, table, order, fault) ==
    IF fault THEN [result |-> Err(BackendError), store |-> s]
    ELSE LET s1 == GetOrCreateTable(s, table)
         IN  [result |-> Ok(TablePairs(s1[table], order)), store |-> s1]

(***************************************************************************)
(* SledDB: the Storage adapter over a sled Db.  A Db is a function from    *)
(* the names of its trees to trees; a tree is a function from key bytes to *)
(* value bytes, iterated in the order of the key bytes.                    *)
(***************************************************************************)
\* key bytes that are not UTF-8
NotUtf8 == "0xFF"
\* the key bytes a tree may hold, in their byte order
SledKeyOrder == <<"k1", "k2", NotUtf8>>
SledKeys == {SledKeyOrder[i] : i \in 1..Len(SledKeyOrder)}
\* TryFrom<Value> for IVec: the encoded bytes of a Value
EncodeValue(v) == [bytes |-> "Value", of |-> v]
\* bytes that are no encoding of a Value
Malformed == [bytes |-> "malformed", of |-> DefaultValue]
SledBytes == {EncodeValue(v) : v \in StoredValues} \cup {Malformed}
ConvertError == [kind |-> "ConvertError", args |-> <<"IVec", "Value">>]
\* TryFrom<IVec> for Value
DecodeValue(b) == IF b.bytes = "Value" THEN Ok(b.of) ELSE Err(ConvertError)
\* str::from_utf8
FromUtf8(k) == IF k = NotUtf8 THEN Err(ConvertError) ELSE Ok(k)

\* the outcome of a call that panics instead of returning
Panicked == [ok |-> FALSE, val |-> NoneOpt, err |-> [kind |-> "panic", args |-> <<"unwrap">>]]
\* Kvpair::default(): empty key, no value
KvpairDefault == Kvpair("", NoneOpt)

EmptyTree == [k \in {} |-> Malformed]
\* a Db with no tree
EmptyDb == [t \in {} |-> EmptyTree]
\* Db::open_tree: the tree is created if the Db has none of that name
OpenTree(d, table) ==
    IF table \in DOMAIN d THEN d
    ELSE [t \in DOMAIN d \cup {table} |-> IF t = table THEN EmptyTree ELSE d[t]]
\* Tree::get
TreeGet(tree, key) == IF key \in DOMAIN tree THEN tree[key] ELSE NoneOpt
\* Tree::insert
TreeInsert(tree, key, iv) ==
    [k \in DOMAIN tree \cup {key} |-> IF k = key THEN iv ELSE tree[k]]
\* Tree::remove
TreeRemove(tree, key) == [k \in DOMAIN tree \ {key} |-> tree[k]]

\* Option::map(|v| v.try_into()) on the bytes a tree call returned
MapTryInto(o) == IF o = NoneOpt THEN NoneOpt ELSE DecodeValue(o)
\* flip: Option<Result<T, E>> to Result<Option<T>, E>
Flip(v) == IF v = NoneOpt THEN Ok(NoneOpt) ELSE IF v.ok THEN Ok(v.val) ELSE v

\* SledDB::get; fault: open_tree or the tree call fails
SledGet(d, table, key, fault) ==
    IF fault THEN [result |-> Err(BackendError), db |-> d]
    ELSE LET d1 == OpenTree(d, table)
             value == MapTryInto(TreeGet(d1[table], key))
         IN  [result |-> Flip(value), db |-> d1]

\* SledDB::set: tree.insert runs before the bytes it returns are decoded
SledSet(d, table, key, value, fault) ==
    IF fault THEN [result |-> Err(BackendError), db |-> d]
    ELSE LET d1 == OpenTree(d, table)
             iv == EncodeValue(value)
             old == MapTryInto(TreeGet(d1[table], key))
         IN  [result |-> Flip(old),
              db |-> [d1 EXCEPT ![table] = TreeInsert(@, key, iv)]]

\* SledDB::contains
SledContains(d, table, key, fault) ==
    IF fault THEN [result |-> Err(BackendError), db |-> d]
    ELSE LET d1 == OpenTree(d, table)
         IN  [result |-> Ok(key \in DOMAIN d1[table]), db |-> d1]

\* SledDB::del: tree.remove runs before the bytes it returns are decoded
SledDel(d, table, key, fault) ==
    IF fault THEN [result |-> Err(BackendError), db |-> d]
    ELSE LET d1 == OpenTree(d, table)
             value == MapTryInto(TreeGet(d1[table], key))
         IN  [result |-> Flip(value),
              db |-> [d1 EXCEPT ![table] = TreeRemove(@, key)]]

\* the entries of a tree in the order of their key bytes
RECURSIVE TreeEntries(_, _)
TreeEntries(tree, order) ==
    IF order = <<>> THEN <<>>
    ELSE IF Head(order) \in DOMAIN tree
         THEN <<(<<Head(order), tree[Head(order)]>>)>> \o TreeEntries(tree, Tail(order))
         ELSE TreeEntries(tree, Tail(order))
\* tree.into_iter(): one sled::Result<(IVec, IVec)> per entry; reads[i] says
\* whether the read of the i-th entry fails
TreeIntoIter(tree, reads) ==
    LET es == TreeEntries(tree, SledKeyOrder)
    IN  [i \in 1..Len(es) |-> IF reads[i] THEN Err(BackendError) ELSE Ok(es[i])]

\* From<sled::Result<(IVec, IVec)>> for Kvpair; Panicked where unwrap panics
KvpairFrom(item) ==
    IF ~item.ok THEN KvpairDefault
    ELSE LET v == DecodeValue(item.val[2])
         IN  IF ~v.ok THEN KvpairDefault
             ELSE IF FromUtf8(item.val[1]).ok THEN Kvpair(item.val[1], v.val)
                  ELSE Panicked
\* .map(|v| v.into()).collect(): the Vec, unless a conversion panics
CollectKvpairs(items) ==
    LET ps == [i \in 1..Len(items) |-> KvpairFrom(items[i])]
    IN  IF \E i \in 1..Len(ps) : ps[i] = Panicked THEN Panicked ELSE Ok(ps)

\* SledDB::get_all
SledGetAll(d, table, reads, fault) ==
    IF fault THEN [result |-> Err(BackendError), db |-> d]
    ELSE LET d1 == OpenTree(d, table)
         IN  [result |-> CollectKvpairs(TreeIntoIter(d1[table], reads)), db |-> d1]

\* SledDB::get_iter, and the iterator it returns read to its end: StorateIter
\* converts each item as get_all does
SledGetIter(d, table, reads, fault) ==
    IF fault THEN [result |-> Err(BackendError), db |-> d]
    ELSE LET d1 == OpenTree(d, table)
         IN  [result |-> CollectKvpairs(TreeIntoIter(d1[table], reads)), db |-> d1]

(***************************************************************************)
(* CommandRequest: request_data is one of the nine variants or None.       *)
(***************************************************************************)
Hget(table, key) == [op |-> "Hget", table |-> table, key |-> key]
Hgetall(table) == [op |-> "Hgetall", table |-> table]
\* pair is a Kvpair or NoneOpt
Hset(table, pair) == [op |-> "Hset", table |-> table, pair |-> pair]
Hmget(table, keys) == [op |-> "Hmget", table |-> table, keys |-> keys]
Hmset(table, pairs) == [op |-> "Hmset", table |-> table, pairs |-> pairs]
Hdel(table, key) == [op |-> "Hdel", table |-> table, key |-> key]
Hmdel(table, keys) == [op |-> "Hmdel", table |-> table, keys |-> keys]
Hexist(table, key) == [op |-> "Hexist", table |-> table, key |-> key]
Hmexist(table, keys) == [op |-> "Hmexist", table |-> table, keys |-> keys]
\* CommandRequest { request_data: None }
NoRequestData == [op |-> "None"]

(***************************************************************************)
(* impl CommandService for ...: each returns the response and the store    *)
(* after the command.  faults[i] says whether the i-th Storage call of the *)
(* command fails; order is the backend's iteration order.                  *)
(***************************************************************************)
\* HgetExecute with a fault seeded: a missing key answered like Hdel does, with the default Value
HgetExecuteNoneAsDefault(c, s, faults) ==
    LET g == StorageGet(s, c.table, c.key, faults[1])
    IN  [res |-> IF ~g.result.ok THEN ErrorToResponse(g.result.err)
                 ELSE IF g.result.val = NoneOpt
                      THEN ValueToResponse(DefaultValue)
                      ELSE ValueToResponse(g.result.val),
         store |-> g.store]

HgetExecute(c, s, faults) ==
    LET g == StorageGet(s, c.table, c.key, faults[1])
    IN  [res |-> IF ~g.result.ok THEN ErrorToResponse(g.result.err)
                 ELSE IF g.result.val = NoneOpt
                      THEN ErrorToResponse(NotFound(c.table, c.key))
                      ELSE ValueToResponse(g.result.val),
         store |-> g.store]

\* HgetallExecute with a fault seeded: the values of the pairs are answered in values too
HgetallExecuteWithValues(c, s, faults, order) ==
    LET g == StorageGetAll(s, c.table, order, faults[1])
    IN  [res |-> IF g.result.ok
                 THEN [PairsToResponse(g.result.val) EXCEPT
                          !.values = [i \in 1..Len(g.result.val) |-> g.result.val[i].value]]
                 ELSE ErrorToResponse(g.result.err),
         store |-> g.store]

HgetallExecute(c, s, faults, order) ==
    LET g == StorageGetAll(s, c.table, order, faults[1])
    IN  [res |-> IF g.result.ok THEN PairsToResponse(g.result.val)
                 ELSE ErrorToResponse(g.result.err),
         store |-> g.store]

\* HsetExecute with a fault seeded: the value just written is answered, not the previous one
HsetExecuteReturnsNew(c, s, faults) ==
    IF c.pair = NoneOpt THEN [res |-> ValueToResponse(DefaultValue), store |-> s]
    ELSE LET g == StorageSet(s, c.table, c.pair.key,
                             UnwrapOrDefault(c.pair.value), faults[1])
         IN  [res |-> IF ~g.result.ok THEN ErrorToResponse(g.result.err)
                      ELSE IF g.result.val = NoneOpt
                           THEN ValueToResponse(DefaultValue)
                           ELSE ValueToResponse(UnwrapOrDefault(c.pair.value)),
              store |-> g.store]

\* HsetExecute with a fault seeded: a request with no pair still opens its table
HsetExecuteNoPairOpensTable(c, s, faults) ==
    IF c.pair = NoneOpt
    THEN [res |-> ValueToResponse(DefaultValue), store |-> GetOrCreateTable(s, c.table)]
    ELSE LET g == StorageSet(s, c.table, c.pair.key,
                             UnwrapOrDefault(c.pair.value), faults[1])
         IN  [res |-> IF ~g.result.ok THEN ErrorToResponse(g.result.err)
                      ELSE IF g.result.val = NoneOpt
                           THEN ValueToResponse(DefaultValue)
                           ELSE ValueToResponse(g.result.val),
              store |-> g.store]

HsetExecute(c, s, faults) ==
    IF c.pair = NoneOpt THEN [res |-> ValueToResponse(DefaultValue), store |-> s]
    ELSE LET g == StorageSet(s, c.table, c.pair.key,
                             UnwrapOrDefault(c.pair.value), faults[1])
         IN  [res |-> IF ~g.result.ok THEN ErrorToResponse(g.result.err)
                      ELSE IF g.result.val = NoneOpt
                           THEN ValueToResponse(DefaultValue)
                           ELSE ValueToResponse(g.result.val),
              store |-> g.store]

\* HmgetMap with a fault seeded: filter_map instead of map, a missing key is left out
RECURSIVE HmgetMapSkipMissing(_, _, _, _, _)
HmgetMapSkipMissing(table, keys, s, faults, acc) ==
    IF keys = <<>> THEN [values |-> acc, store |-> s]
    ELSE LET g == StorageGet(s, table, Head(keys), Head(faults))
         IN  HmgetMapSkipMissing(table, Tail(keys), g.store, Tail(faults),
                                 IF g.result.ok /\ g.result.val # NoneOpt
                                 THEN Append(acc, g.result.val) ELSE acc)

\* the map over self.keys of Hmget::execute
RECURSIVE HmgetMap(_, _, _, _, _)
HmgetMap(table, keys, s, faults, acc) ==
    IF keys = <<>> THEN [values |-> acc, store |-> s]
    ELSE LET g == StorageGet(s, table, Head(keys), Head(faults))
             v == IF g.result.ok /\ g.result.val # NoneOpt
                  THEN g.result.val ELSE DefaultValue
         IN  HmgetMap(table, Tail(keys), g.store, Tail(faults), Append(acc, v))

HmgetExecute(c, s, faults) ==
    LET m == HmgetMap(c.table, c.keys, s, faults, <<>>)
    IN  [res |-> ValuesToResponse(m.values), store |-> m.store]

\* HmsetMap with a fault seeded: the pairs are applied last to first, the values
\* still answered in request order
RECURSIVE HmsetMapReversed(_, _, _, _, _)
HmsetMapReversed(table, pairs, s, faults, acc) ==
    IF pairs = <<>> THEN [values |-> acc, store |-> s]
    ELSE LET rest == HmsetMapReversed(table, Tail(pairs), s, Tail(faults), <<>>)
             g == StorageSet(rest.store, table, Head(pairs).key,
                             UnwrapOrDefault(Head(pairs).value), Head(faults))
             v == IF g.result.ok /\ g.result.val # NoneOpt
                  THEN g.result.val ELSE DefaultValue
         IN  [values |-> Append(acc, v) \o rest.values, store |-> g.store]

\* the map over self.pairs of Hmset::execute
RECURSIVE HmsetMap(_, _, _, _, _)
HmsetMap(table, pairs, s, faults, acc) ==
    IF pairs = <<>> THEN [values |-> acc, store |-> s]
    ELSE LET g == StorageSet(s, table, Head(pairs).key,
                             UnwrapOrDefault(Head(pairs).value), Head(faults))
             v == IF g.result.ok /\ g.result.val # NoneOpt
                  THEN g.result.val ELSE DefaultValue
         IN  HmsetMap(table, Tail(pairs), g.store, Tail(faults), Append(acc, v))

HmsetExecute(c, s, faults) ==
    LET m == HmsetMap(c.table, c.pairs, s, faults, <<>>)
    IN  [res |-> ValuesToResponse(m.values), store |-> m.store]

\* HdelExecute with a fault seeded: store.get where store.del was meant, nothing is removed
HdelExecuteGet(c, s, faults) ==
    LET g == StorageGet(s, c.table, c.key, faults[1])
    IN  [res |-> IF ~g.result.ok THEN ErrorToResponse(g.result.err)
                 ELSE IF g.result.val = NoneOpt
                      THEN ValueToResponse(DefaultValue)
                      ELSE ValueToResponse(g.result.val),
         store |-> g.store]

\* HdelExecute with a fault seeded: a failed store.del is answered like an absent key
HdelExecuteSwallowsError(c, s, faults) ==
    LET g == StorageDel(s, c.table, c.key, faults[1])
    IN  [res |-> IF g.result.ok /\ g.result.val # NoneOpt
                 THEN ValueToResponse(g.result.val)
                 ELSE ValueToResponse(DefaultValue),
         store |-> g.store]

HdelExecute(c, s, faults) ==
    LET g == StorageDel(s, c.table, c.key, faults[1])
    IN  [res |-> IF ~g.result.ok THEN ErrorToResponse(g.result.err)
                 ELSE IF g.result.val = NoneOpt
                      THEN ValueToResponse(DefaultValue)
                      ELSE ValueToResponse(g.result.val),
         store |-> g.store]

\* HmdelMap with a fault seeded: store.get where store.del was meant, nothing is removed
RECURSIVE HmdelMapGet(_, _, _, _, _)
HmdelMapGet(table, keys, s, faults, acc) ==
    IF keys = <<>> THEN [values |-> acc, store |-> s]
    ELSE LET g == StorageGet(s, table, Head(keys), Head(faults))
             v == IF g.result.ok /\ g.result.val # NoneOpt
                  THEN g.result.val ELSE DefaultValue
         IN  HmdelMapGet(table, Tail(keys), g.store, Tail(faults), Append(acc, v))

\* HmdelMap with a fault seeded: the map ends at the first store.del that fails
RECURSIVE HmdelMapStopsAtFailure(_, _, _, _, _)
HmdelMapStopsAtFailure(table, keys, s, faults, acc) ==
    IF keys = <<>> THEN [values |-> acc, store |-> s]
    ELSE LET g == StorageDel(s, table, Head(keys), Head(faults))
             v == IF g.result.val # NoneOpt THEN g.result.val ELSE DefaultValue
         IN  IF ~g.result.ok THEN [values |-> acc, store |-> s]
             ELSE HmdelMapStopsAtFailure(table, Tail(keys), g.store, Tail(faults),
                                         Append(acc, v))

\* the map over self.keys of Hmdel::execute
RECURSIVE HmdelMap(_, _, _, _, _)
HmdelMap(table, keys, s, faults, acc) ==
    IF keys = <<>> THEN [values |-> acc, store |-> s]
    ELSE LET g == StorageDel(s, table, Head(keys), Head(faults))
             v == IF g.result.ok /\ g.result.val # NoneOpt
                  THEN g.result.val ELSE DefaultValue
         IN  HmdelMap(table, Tail(keys), g.store, Tail(faults), Append(acc, v))

HmdelExecute(c, s, faults) ==
    LET m == HmdelMap(c.table, c.keys, s, faults, <<>>)
    IN  [res |-> ValuesToResponse(m.values), store |-> m.store]

\* HexistExecute with a fault seeded: the key is looked for with store.del, which
\* removes it
HexistExecuteRemoving(c, s, faults) ==
    LET g == StorageDel(s, c.table, c.key, faults[1])
    IN  [res |-> IF g.result.ok THEN ValueToResponse(BoolValue(g.result.val # NoneOpt))
                 ELSE ErrorToResponse(g.result.err),
         store |-> g.store]

HexistExecute(c, s, faults) ==
    LET g == StorageContains(s, c.table, c.key, faults[1])
    IN  [res |-> IF g.result.ok THEN ValueToResponse(g.result.val)
                 ELSE ErrorToResponse(g.result.err),
         store |-> g.store]

\* HmexistMap with a fault seeded: an absent key answered with the default Value, not false
RECURSIVE HmexistMapDefaultForFalse(_, _, _, _, _)
HmexistMapDefaultForFalse(table, keys, s, faults, acc) ==
    IF keys = <<>> THEN [values |-> acc, store |-> s]
    ELSE LET g == StorageContains(s, table, Head(keys), Head(faults))
             v == IF g.result.ok /\ g.result.val = BoolValue(TRUE)
                  THEN g.result.val ELSE DefaultValue
         IN  HmexistMapDefaultForFalse(table, Tail(keys), g.store, Tail(faults),
                                       Append(acc, v))

\* the map over self.keys of Hmexist::execute
RECURSIVE HmexistMap(_, _, _, _, _)
HmexistMap(table, keys, s, faults, acc) ==
    IF keys = <<>> THEN [values |-> acc, store |-> s]
    ELSE LET g == StorageContains(s, table, Head(keys), Head(faults))
             v == IF g.result.ok THEN g.result.val ELSE DefaultValue
         IN  HmexistMap(table, Tail(keys), g.store, Tail(faults), Append(acc, v))

HmexistExecute(c, s, faults) ==
    LET m == HmexistMap(c.table, c.keys, s, faults, <<>>)
    IN  [res |-> ValuesToResponse(m.values), store |-> m.store]

\* Dispatch with a fault seeded: a request with no variant answered as a success
DispatchNoneOk(c, s, faults, order) ==
    CASE c.op = "Hget" -> HgetExecute(c, s, faults)
      [] c.op = "Hgetall" -> HgetallExecute(c, s, faults, order)
      [] c.op = "Hset" -> HsetExecute(c, s, faults)
      [] c.op = "Hmget" -> HmgetExecute(c, s, faults)
      [] c.op = "Hmset" -> HmsetExecute(c, s, faults)
      [] c.op = "Hdel" -> HdelExecute(c, s, faults)
      [] c.op = "Hmdel" -> HmdelExecute(c, s, faults)
      [] c.op = "Hexist" -> HexistExecute(c, s, faults)
      [] c.op = "Hmexist" -> HmexistExecute(c, s, faults)
      [] OTHER -> [res |-> ValueToResponse(DefaultValue), store |-> s]

\* dispatch: one arm per variant of request_data
Dispatch(c, s, faults, order) ==
    CASE c.op = "Hget" -> HgetExecute(c, s, faults)
      [] c.op = "Hgetall" -> HgetallExecute(c, s, faults, order)
      [] c.op = "Hset" -> HsetExecute(c, s, faults)
      [] c.op = "Hmget" -> HmgetExecute(c, s, faults)
      [] c.op = "Hmset" -> HmsetExecute(c, s, faults)
      [] c.op = "Hdel" -> HdelExecute(c, s, faults)
      [] c.op = "Hmdel" -> HmdelExecute(c, s, faults)
      [] c.op = "Hexist" -> HexistExecute(c, s, faults)
      [] c.op = "Hmexist" -> HmexistExecute(c, s, faults)
      [] OTHER -> [res |-> ErrorToResponse(InvalidCommand("Request has no data")),
                   store |-> s]

(***************************************************************************)
(* Service: ServiceInner holds the store and the four hook lists; a        *)
(* Service is an Arc pointing at one ServiceInner.                         *)
(***************************************************************************)
\* the hooks a caller registers in this model
\* two on_received hooks, so that the order of their calls shows
ReceivedHooks == {"on_received", "log_request"}
ExecutedHooks == {"on_executed"}
BeforeSendHooks == {"created", "accepted"}
AfterSendHooks == {"on_after_send"}

\* ServiceInner::new
ServiceInnerNew(store) ==
    [store |-> store, on_received |-> <<>>, on_executed |-> <<>>,
     on_before_send |-> <<>>, on_after_send |-> <<>>]
FnReceived(inner, f) == [inner EXCEPT !.on_received = Append(@, f)]
FnExecuted(inner, f) == [inner EXCEPT !.on_executed = Append(@, f)]
FnBeforeSend(inner, f) == [inner EXCEPT !.on_before_send = Append(@, f)]
FnAfterSend(inner, f) == [inner EXCEPT !.on_after_send = Append(@, f)]

\* an on_before_send hook: fn(&mut CommandResponse); both overwrite status
BeforeSendHook(f, r) ==
    IF f = "created" THEN [r EXCEPT !.status = 201]
    ELSE [r EXCEPT !.status = 202]

\* Notify with a fault seeded: the hooks run last registered first
RECURSIVE NotifyReversed(_, _, _)
NotifyReversed(hooks, point, seen) ==
    IF hooks = <<>> THEN <<>>
    ELSE NotifyReversed(Tail(hooks), point, seen)
         \o <<[at |-> point, f |-> Head(hooks), seen |-> seen]>>

\* Notify for Vec<fn(&Args)>: every hook runs, in order, on the same args;
\* the trace records which hook ran and the status it saw (0: a request)
RECURSIVE Notify(_, _, _)
Notify(hooks, point, seen) ==
    IF hooks = <<>> THEN <<>>
    ELSE <<[at |-> point, f |-> Head(hooks), seen |-> seen]>>
         \o Notify(Tail(hooks), point, seen)

\* NotifyMut for Vec<fn(&mut Args)>: each hook works on what the ones before left
RECURSIVE NotifyMut(_, _, _)
NotifyMut(hooks, r, trace) ==
    IF hooks = <<>> THEN [res |-> r, trace |-> trace]
    ELSE NotifyMut(Tail(hooks), BeforeSendHook(Head(hooks), r),
                   Append(trace, [at |-> "on_before_send", f |-> Head(hooks),
                                  seen |-> r.status]))

\* ServiceExecute with a fault seeded: on_before_send runs on a copy, the caller gets
\* what dispatch returned
ServiceExecuteHooksOnCopy(inner, c, faults, order) ==
    LET t1 == Notify(inner.on_received, "on_received", 0)
        d == Dispatch(c, inner.store, faults, order)
        t2 == t1 \o <<[at |-> "dispatch", f |-> c.op, seen |-> 0]>>
                 \o Notify(inner.on_executed, "on_executed", d.res.status)
        m == NotifyMut(inner.on_before_send, d.res, t2)
    IN  [res |-> d.res, dres |-> d.res, store |-> d.store, trace |-> m.trace]

\* ServiceExecute with a fault seeded: dispatch works on a copy of the store, the
\* shared one never changes
ServiceExecuteOnStoreCopy(inner, c, faults, order) ==
    LET t1 == Notify(inner.on_received, "on_received", 0)
        d == Dispatch(c, inner.store, faults, order)
        t2 == t1 \o <<[at |-> "dispatch", f |-> c.op, seen |-> 0]>>
                 \o Notify(inner.on_executed, "on_executed", d.res.status)
        m == NotifyMut(inner.on_before_send, d.res, t2)
    IN  [res |-> m.res, dres |-> d.res, store |-> inner.store, trace |-> m.trace]

\* Service::execute on the ServiceInner the handle points at
ServiceExecute(inner, c, faults, order) ==
    LET t1 == Notify(inner.on_received, "on_received", 0)
        d == Dispatch(c, inner.store, faults, order)
        t2 == t1 \o <<[at |-> "dispatch", f |-> c.op, seen |-> 0]>>
                 \o Notify(inner.on_executed, "on_executed", d.res.status)
        m == NotifyMut(inner.on_before_send, d.res, t2)
    IN  [res |-> m.res, dres |-> d.res, store |-> d.store, trace |-> m.trace]

(***************************************************************************)
(* State.                                                                  *)
(***************************************************************************)
Threads == {"main", "w1", "w2"}
\* ids of Arc<ServiceInner> allocations; 0 is no allocation
InnerIds == {1, 2, 3}

VARIABLES
    heap,     \* the Arc allocations: id -> ServiceInner
    service,  \* thread -> id its Service handle points at, 0 if it has none
    phase,    \* "building" while the ServiceInner builder runs, then "serving"
    pc,       \* thread -> "idle", "dispatch" (inside execute), "done" (returned)
    cmd,      \* thread -> the request of its current or last execute
    res,      \* thread -> the response its last execute returned
    dres,     \* thread -> what dispatch returned in that execute, before the hooks
    pre,      \* the store main's last execute started from
    trace,    \* the hook and dispatch events of main's last execute
    last,     \* history: per table and key, the last write or delete requested
    prelast,  \* history: last, as main's last execute found it
    seen,     \* history: thread -> last of its command's key when its Storage call ran
    raced,    \* history: thread -> whether its Hset was in flight together with another Hset
    failed,   \* history: which Storage calls of main's last execute failed, in call order
    sled,     \* the Db of a SledDB
    scall     \* history: the last Storage call on the SledDB, the Db it found and its result

vars == <<heap, service, phase, pc, cmd, res, dres, pre, trace, last, prelast, seen, raced,
          failed, sled, scall>>

NoResponse == [status |-> 0, message |-> <<>>, values |-> <<>>, pairs |-> <<>>]
\* no Storage call was made on the SledDB yet
NoCall == [op |-> "none", before |-> EmptyDb, result |-> Ok(NoneOpt)]

\* the store behind main's Service
Store == heap[service["main"]].store

(***************************************************************************)
(* History of the requests: what was last asked of each key, whatever the  *)
(* store made of it.                                                       *)
(***************************************************************************)
NeverWritten == [kind |-> "NeverWritten", v |-> 0]
Deleted == [kind |-> "Deleted", v |-> 0]
Slots == Tables \X Keys
RecordSet(l, table, key, v) == [l EXCEPT ![<<table, key>>] = v]
RecordDel(l, table, key) ==
    [l EXCEPT ![<<table, key>>] = IF @ = NeverWritten THEN NeverWritten ELSE Deleted]
RECURSIVE RecordSets(_, _, _)
RecordSets(l, table, pairs) ==
    IF pairs = <<>> THEN l
    ELSE RecordSets(RecordSet(l, table, Head(pairs).key, UnwrapOrDefault(Head(pairs).value)),
                    table, Tail(pairs))
RECURSIVE RecordDels(_, _, _)
RecordDels(l, table, keys) ==
    IF keys = <<>> THEN l
    ELSE RecordDels(RecordDel(l, table, Head(keys)), table, Tail(keys))
Record(l, c) ==
    CASE c.op = "Hset" /\ c.pair # NoneOpt ->
            RecordSet(l, c.table, c.pair.key, UnwrapOrDefault(c.pair.value))
      [] c.op = "Hmset" -> RecordSets(l, c.table, c.pairs)
      [] c.op = "Hdel" -> RecordDel(l, c.table, c.key)
      [] c.op = "Hmdel" -> RecordDels(l, c.table, c.keys)
      [] OTHER -> l

(***************************************************************************)
(* The requests and environments the model draws from.                     *)
(***************************************************************************)
RECURSIVE SeqsUpTo(_, _)
SeqsUpTo(S, n) ==
    IF n = 0 THEN {<<>>}
    ELSE LET shorter == SeqsUpTo(S, n - 1)
         IN  shorter \cup {Append(q, x) : q \in {p \in shorter : Len(p) = n - 1}, x \in S}

Pairs == {Kvpair(k, v) : k \in Keys, v \in {NoneOpt, StringValue(1), StringValue(2)}}
SingleCommands ==
    {Hget(t, k) : t \in Tables, k \in Keys}
    \cup {Hgetall(t) : t \in Tables}
    \cup {Hset(t, p) : t \in Tables, p \in Pairs \cup {NoneOpt}}
    \cup {Hset(t, Kvpair(k, DefaultValue)) : t \in Tables, k \in Keys}
    \cup {Hdel(t, k) : t \in Tables, k \in Keys}
    \cup {Hexist(t, k) : t \in Tables, k \in Keys}
    \cup {NoRequestData}
BatchCommands ==
    {Hmget(t, ks) : t \in Tables, ks \in SeqsUpTo(Keys, MaxBatch)}
    \cup {Hmset(t, ps) : t \in Tables, ps \in SeqsUpTo(Pairs, MaxBatch)}
    \cup {Hmdel(t, ks) : t \in Tables, ks \in SeqsUpTo(Keys, MaxBatch)}
    \cup {Hmexist(t, ks) : t \in Tables, ks \in SeqsUpTo(Keys, MaxBatch)}
Commands == SingleCommands \cup BatchCommands

\* how many Storage calls a command makes
StorageCalls(c) ==
    CASE c.op \in {"Hmget", "Hmdel", "Hmexist"} -> Len(c.keys)
      [] c.op = "Hmset" -> Len(c.pairs)
      [] c.op = "Hset" -> IF c.pair = NoneOpt THEN 0 ELSE 1
      [] c.op = "None" -> 0
      [] OTHER -> 1
\* MemTable's operations never fail
NoFaults(c) == [i \in 1..StorageCalls(c) |-> FALSE]
\* the orders a hash map may iterate its keys in
KeyOrders == {o \in SeqsUpTo(Keys, Cardinality(Keys)) :
                Len(o) = Cardinality(Keys) /\ \A k \in Keys : \E i \in 1..Len(o) : o[i] = k}
Orders(c) == IF c.op = "Hgetall" THEN KeyOrders ELSE {CHOOSE o \in KeyOrders : TRUE}

(***************************************************************************)
(* Init: ServiceInner::new(MemTable::new()).into(), owned by main.         *)
(***************************************************************************)
Init ==
    /\ heap = [i \in {1} |-> ServiceInnerNew(EmptyStore)]
    /\ service = [t \in Threads |-> IF t = "main" THEN 1 ELSE 0]
    /\ phase = "serving"
    /\ pc = [t \in Threads |-> "idle"]
    /\ cmd = [t \in Threads |-> NoRequestData]
    /\ res = [t \in Threads |-> NoResponse]
    /\ dres = [t \in Threads |-> NoResponse]
    /\ pre = EmptyStore
    /\ trace = <<>>
    /\ last = [sl \in Slots |-> NeverWritten]
    /\ prelast = [sl \in Slots |-> NeverWritten]
    /\ seen = [t \in Threads |-> NeverWritten]
    /\ raced = [t \in Threads |-> FALSE]
    /\ failed = <<>>
    /\ sled = EmptyDb
    /\ scall = NoCall

\* main calls service.execute(c) and gets the response back
Execute(c, order) ==
    /\ phase = "serving"
    /\ pc["main"] = "idle"
    /\ LET id == service["main"]
           e == ServiceExecute(heap[id], c, NoFaults(c), order)
       IN  /\ heap' = [heap EXCEPT ![id].store = e.store]
           /\ cmd' = [cmd EXCEPT !["main"] = c]
           /\ res' = [res EXCEPT !["main"] = e.res]
           /\ dres' = [dres EXCEPT !["main"] = e.dres]
           /\ pre' = heap[id].store
           /\ trace' = e.trace
           /\ pc' = [pc EXCEPT !["main"] = "done"]
    /\ last' = Record(last, c)
    /\ prelast' = last
    /\ failed' = NoFaults(c)
    /\ UNCHANGED <<service, phase, seen, raced, sled, scall>>

\* main is done with the response: execute keeps no reference to the exchange
Drop ==
    /\ pc["main"] = "done"
    /\ pc' = [pc EXCEPT !["main"] = "idle"]
    /\ cmd' = [cmd EXCEPT !["main"] = NoRequestData]
    /\ res' = [res EXCEPT !["main"] = NoResponse]
    /\ dres' = [dres EXCEPT !["main"] = NoResponse]
    /\ pre' = EmptyStore
    /\ trace' = <<>>
    /\ prelast' = [sl \in Slots |-> NeverWritten]
    /\ failed' = <<>>
    /\ UNCHANGED <<heap, service, phase, last, seen, raced, sled, scall>>

Next ==
    \/ \E c \in Commands : \E order \in Orders(c) : Execute(c, order)
    \/ Drop

Spec == Init /\ [][Next]_vars

(***************************************************************************)
(* SpecFaults: the Service over a Storage whose calls may fail (the Err of  *)
(* a Storage call, such as a backend that cannot open its tree); a failed  *)
(* call leaves the store as it was.  main executes commands on table t1.   *)
(***************************************************************************)
FaultCommands == {c \in Commands : c.op = "None" \/ c.table = "t1"}
\* every way the Storage calls of a command can fail
Faults(c) == [1..StorageCalls(c) -> BOOLEAN]

\* the elements of a batch whose Storage call did not fail
RECURSIVE Keep(_, _)
Keep(q, f) ==
    IF q = <<>> THEN <<>>
    ELSE (IF Head(f) THEN <<>> ELSE <<Head(q)>>) \o Keep(Tail(q), Tail(f))
\* the part of a command the store carried out
Applied(c, f) ==
    CASE c.op = "Hmset" -> Hmset(c.table, Keep(c.pairs, f))
      [] c.op = "Hmdel" -> Hmdel(c.table, Keep(c.keys, f))
      [] c.op \in {"Hset", "Hdel"} /\ StorageCalls(c) = 1 /\ f[1] -> NoRequestData
      [] OTHER -> c

\* main calls service.execute(c); f says which of its Storage calls fail
ExecuteFaulty(c, f, order) ==
    /\ phase = "serving"
    /\ pc["main"] = "idle"
    /\ LET id == service["main"]
           e == ServiceExecute(heap[id], c, f, order)
       IN  /\ heap' = [heap EXCEPT ![id].store = e.store]
           /\ cmd' = [cmd EXCEPT !["main"] = c]
           /\ res' = [res EXCEPT !["main"] = e.res]
           /\ dres' = [dres EXCEPT !["main"] = e.dres]
           /\ pre' = heap[id].store
           /\ trace' = e.trace
           /\ pc' = [pc EXCEPT !["main"] = "done"]
    /\ last' = Record(last, Applied(c, f))
    /\ prelast' = last
    /\ failed' = f
    /\ UNCHANGED <<service, phase, seen, raced, sled, scall>>

NextFaults ==
    \/ \E c \in FaultCommands : \E f \in Faults(c) : \E order \in Orders(c) :
          ExecuteFaulty(c, f, order)
    \/ Drop

SpecFaults == Init /\ [][NextFaults]_vars

(***************************************************************************)
(* SpecHooks: the builder registers hooks on a ServiceInner, into() makes  *)
(* it a Service, main executes commands on table t1.                       *)
(***************************************************************************)
InitBuild ==
    /\ heap = [i \in {1} |-> ServiceInnerNew(EmptyStore)]
    /\ service = [t \in Threads |-> 0]
    /\ phase = "building"
    /\ pc = [t \in Threads |-> "idle"]
    /\ cmd = [t \in Threads |-> NoRequestData]
    /\ res = [t \in Threads |-> NoResponse]
    /\ dres = [t \in Threads |-> NoResponse]
    /\ pre = EmptyStore
    /\ trace = <<>>
    /\ last = [sl \in Slots |-> NeverWritten]
    /\ prelast = [sl \in Slots |-> NeverWritten]
    /\ seen = [t \in Threads |-> NeverWritten]
    /\ raced = [t \in Threads |-> FALSE]
    /\ failed = <<>>
    /\ sled = EmptyDb
    /\ scall = NoCall

HookCount(inner) ==
    Len(inner.on_received) + Len(inner.on_executed)
    + Len(inner.on_before_send) + Len(inner.on_after_send)

\* one call of the builder: fn_received, fn_executed, fn_before_send, fn_after_send
Register(inner) ==
    /\ phase = "building"
    /\ HookCount(heap[1]) < MaxHooks
    /\ heap' = [heap EXCEPT ![1] = inner]
    /\ UNCHANGED <<service, phase, pc, cmd, res, dres, pre, trace, last, prelast, seen,
                   raced, failed, sled, scall>>

\* From<ServiceInner> for Service: Arc::new(inner), held by main
Into ==
    /\ phase = "building"
    /\ phase' = "serving"
    /\ service' = [service EXCEPT !["main"] = 1]
    /\ UNCHANGED <<heap, pc, cmd, res, dres, pre, trace, last, prelast, seen, raced,
                   failed, sled, scall>>

\* every shape of response: one value, several values, pairs, 404, 400
HookCommands ==
    {c \in SingleCommands : c.op = "None" \/ c.table = "t1"}
    \cup {Hmget("t1", ks) : ks \in SeqsUpTo(Keys, MaxBatch)}

NextHooks ==
    \/ \E f \in ReceivedHooks : Register(FnReceived(heap[1], f))
    \/ \E f \in ExecutedHooks : Register(FnExecuted(heap[1], f))
    \/ \E f \in BeforeSendHooks : Register(FnBeforeSend(heap[1], f))
    \/ \E f \in AfterSendHooks : Register(FnAfterSend(heap[1], f))
    \/ Into
    \/ \E c \in HookCommands : \E order \in Orders(c) : Execute(c, order)
    \/ Drop

SpecHooks == InitBuild /\ [][NextHooks]_vars

(***************************************************************************)
(* SpecConc: main clones its Service for the worker threads; every thread  *)
(* calls execute on its own handle.  A call is in flight from Call to      *)
(* Serve; the Storage call of a single-key command is one atomic step.     *)
(***************************************************************************)
\* ServiceClone with a fault seeded: the clone gets a ServiceInner of its own, a copy
ServiceCloneDeep(h, id) ==
    LET new == CHOOSE i \in InnerIds : i \notin DOMAIN h
    IN  [heap |-> [i \in DOMAIN h \cup {new} |-> IF i = new THEN h[id] ELSE h[i]],
         id |-> new]

\* Clone for Service: Arc::clone, a second handle on the same ServiceInner
ServiceClone(h, id) == [heap |-> h, id |-> id]

\* service.clone() moved into the thread u
Clone(t, u) ==
    /\ service[t] # 0 /\ service[u] = 0
    /\ LET c == ServiceClone(heap, service[t])
       IN  /\ heap' = c.heap
           /\ service' = [service EXCEPT ![u] = c.id]
    /\ UNCHANGED <<phase, pc, cmd, res, dres, pre, trace, last, prelast, seen, raced,
                   failed, sled, scall>>

\* each thread writes a value of its own
ValueOf(t) ==
    CASE t = "main" -> DefaultValue [] t = "w1" -> StringValue(1) [] OTHER -> StringValue(2)
\* every thread sets and gets; the workers also delete, main also asks Hexist
ConcCommands(t) ==
    {Hset("t1", Kvpair(k, ValueOf(t))) : k \in Keys}
    \cup {Hget("t1", k) : k \in Keys}
    \cup (IF t = "main" THEN {Hexist("t1", k) : k \in Keys}
          ELSE {Hdel("t1", k) : k \in Keys})
KeyOf(c) == IF c.op = "Hset" THEN c.pair.key ELSE c.key

\* thread t is inside execute with an Hset
WritingInFlight(t) == pc[t] = "dispatch" /\ cmd[t].op = "Hset"

\* thread t enters service.execute(c)
Call(t, c) ==
    /\ pc[t] = "idle" /\ service[t] # 0
    /\ pc' = [pc EXCEPT ![t] = "dispatch"]
    /\ cmd' = [cmd EXCEPT ![t] = c]
    /\ raced' = [u \in Threads |->
                    IF u = t
                    THEN c.op = "Hset" /\ \E w \in Threads \ {t} : WritingInFlight(w)
                    ELSE raced[u] \/ (c.op = "Hset" /\ WritingInFlight(u))]
    /\ UNCHANGED <<heap, service, phase, res, dres, pre, trace, last, prelast, seen,
                   failed, sled, scall>>

\* the body of execute in thread t, on the ServiceInner its handle points at
Serve(t) ==
    /\ pc[t] = "dispatch"
    /\ LET id == service[t]
           c == cmd[t]
           e == ServiceExecute(heap[id], c, NoFaults(c), CHOOSE o \in KeyOrders : TRUE)
       IN  /\ heap' = [heap EXCEPT ![id].store = e.store]
           /\ res' = [res EXCEPT ![t] = e.res]
           /\ dres' = [dres EXCEPT ![t] = e.dres]
           /\ seen' = [seen EXCEPT ![t] = last[<<c.table, KeyOf(c)>>]]
           /\ last' = Record(last, c)
    /\ pc' = [pc EXCEPT ![t] = "done"]
    /\ UNCHANGED <<service, phase, cmd, pre, trace, prelast, raced, failed, sled, scall>>

\* thread t is done with the response
DropResponse(t) ==
    /\ pc[t] = "done"
    /\ pc' = [pc EXCEPT ![t] = "idle"]
    /\ cmd' = [cmd EXCEPT ![t] = NoRequestData]
    /\ res' = [res EXCEPT ![t] = NoResponse]
    /\ dres' = [dres EXCEPT ![t] = NoResponse]
    /\ seen' = [seen EXCEPT ![t] = NeverWritten]
    /\ raced' = [raced EXCEPT ![t] = FALSE]
    /\ UNCHANGED <<heap, service, phase, pre, trace, last, prelast, failed, sled, scall>>

NextConc ==
    \/ \E t, u \in Threads : Clone(t, u)
    \/ \E t \in Threads : \E c \in ConcCommands(t) : Call(t, c)
    \/ \E t \in Threads : Serve(t)
    \/ \E t \in Threads : DropResponse(t)

SpecConc == Init /\ [][NextConc]_vars

(***************************************************************************)
(* SpecSled: the Storage calls on a SledDB opened on a path.  The path may *)
(* hold a database from an earlier run or another writer: any entries, the *)
(* bytes of a value not always an encoding of a Value, the bytes of a key  *)
(* not always UTF-8.  Callers pass keys as strings.                        *)
(***************************************************************************)
SledTable == "t1"
SledTrees == UNION {[S -> SledBytes] : S \in SUBSET SledKeys}
\* SledDB::new(path): what sled::open finds there
SledDbs == {EmptyDb} \cup {[t \in {SledTable} |-> tree] : tree \in SledTrees}

InitSled ==
    /\ heap = [i \in {1} |-> ServiceInnerNew(EmptyStore)]
    /\ service = [t \in Threads |-> IF t = "main" THEN 1 ELSE 0]
    /\ phase = "serving"
    /\ pc = [t \in Threads |-> "idle"]
    /\ cmd = [t \in Threads |-> NoRequestData]
    /\ res = [t \in Threads |-> NoResponse]
    /\ dres = [t \in Threads |-> NoResponse]
    /\ pre = EmptyStore
    /\ trace = <<>>
    /\ last = [sl \in Slots |-> NeverWritten]
    /\ prelast = [sl \in Slots |-> NeverWritten]
    /\ seen = [t \in Threads |-> NeverWritten]
    /\ raced = [t \in Threads |-> FALSE]
    /\ failed = <<>>
    /\ sled \in SledDbs
    /\ scall = NoCall

\* the tree of a table as a scan or a lookup finds it
TreeOf(d, table) == IF table \in DOMAIN d THEN d[table] ELSE EmptyTree
\* the ways the reads of a scan of the tree can fail
Reads(table) == [1..Cardinality(DOMAIN TreeOf(sled, table)) -> BOOLEAN]

\* one Storage call on the SledDB: r is what the call returns and leaves
SledCall(op, table, key, reads, r) ==
    /\ sled' = r.db
    /\ scall' = [op |-> op, table |-> table, key |-> key, reads |-> reads,
                 before |-> sled, result |-> r.result]
    /\ UNCHANGED <<heap, service, phase, pc, cmd, res, dres, pre, trace, last, prelast,
                   seen, raced, failed>>

SledGetCall(key, fault) ==
    SledCall("get", SledTable, key, <<>>, SledGet(sled, SledTable, key, fault))
SledSetCall(key, value, fault) ==
    SledCall("set", SledTable, key, <<>>, SledSet(sled, SledTable, key, value, fault))
SledContainsCall(key, fault) ==
    SledCall("contains", SledTable, key, <<>>, SledContains(sled, SledTable, key, fault))
SledDelCall(key, fault) ==
    SledCall("del", SledTable, key, <<>>, SledDel(sled, SledTable, key, fault))
SledGetAllCall(reads, fault) ==
    SledCall("get_all", SledTable, "", reads, SledGetAll(sled, SledTable, reads, fault))
SledGetIterCall(reads, fault) ==
    SledCall("get_iter", SledTable, "", reads, SledGetIter(sled, SledTable, reads, fault))

NextSled ==
    \/ \E k \in Keys, fault \in BOOLEAN : SledGetCall(k, fault)
    \/ \E k \in Keys, v \in StoredValues, fault \in BOOLEAN : SledSetCall(k, v, fault)
    \/ \E k \in Keys, fault \in BOOLEAN : SledContainsCall(k, fault)
    \/ \E k \in Keys, fault \in BOOLEAN : SledDelCall(k, fault)
    \/ \E reads \in Reads(SledTable), fault \in BOOLEAN : SledGetAllCall(reads, fault)
    \/ \E reads \in Reads(SledTable), fault \in BOOLEAN : SledGetIterCall(reads, fault)

SpecSled == InitSled /\ [][NextSled]_vars

(***************************************************************************)
(* Properties of dispatch over MemTable (Spec).                            *)
(***************************************************************************)
Cmd == cmd["main"]
Res == res["main"]
Done == pc["main"] = "done"
Range(q) == {q[i] : i \in 1..Len(q)}
\* what main's last execute found requested last for a key of its table
Before(key) == prelast[<<Cmd.table, key>>]
IsValue(x) == x \notin {NeverWritten, Deleted}
\* the value a key holds, or the default Value if it holds none
ValueOrDefault(x) == IF IsValue(x) THEN x ELSE DefaultValue
IsError(r, code) ==
    r.status = code /\ Len(r.message) > 0 /\ r.values = <<>> /\ r.pairs = <<>>

\* C1: Hget of a key that was never written, or of a table that does not
\* exist yet, answers 404 with a message containing "Not found" and with
\* empty values and pairs.
C1_HgetNeverWrittenIs404 ==
    (Done /\ Cmd.op = "Hget"
          /\ (Before(Cmd.key) = NeverWritten \/ Cmd.table \notin DOMAIN pre))
    => (IsError(Res, 404) /\ "Not found" \in Range(Res.message))

C1_Witness ==
    /\ Done /\ Cmd.op = "Hget"
    /\ Before(Cmd.key) = NeverWritten
    /\ Cmd.table \in DOMAIN pre /\ DOMAIN pre[Cmd.table] # {}
    /\ Res.status = 404

\* C2: last write wins: Hset answers 200 with the value the key held before
\* (the default Value if it held none), and an Hget of a key whose last write
\* was V, with no write or delete of it since, answers 200 with [V].
C2_HsetLastWriteWins ==
    /\ (Done /\ Cmd.op = "Hset" /\ Cmd.pair # NoneOpt)
       => /\ Res.status = 200
          /\ Res.values = <<ValueOrDefault(Before(Cmd.pair.key))>>
          /\ last[<<Cmd.table, Cmd.pair.key>>] = UnwrapOrDefault(Cmd.pair.value)
    /\ (Done /\ Cmd.op = "Hget" /\ IsValue(Before(Cmd.key)))
       => (Res.status = 200 /\ Res.values = <<Before(Cmd.key)>>)

C2_Witness ==
    /\ Done /\ Cmd.op = "Hset" /\ Cmd.pair # NoneOpt
    /\ Before(Cmd.pair.key) = StringValue(1)
    /\ Cmd.pair.value = StringValue(2)
    /\ Res.values = <<StringValue(1)>>

\* C3: Hmget answers 200 with exactly one value per requested key, in request
\* order: the value the key holds, or the default Value if it is absent.
C3_HmgetAligned ==
    (Done /\ Cmd.op = "Hmget")
    => /\ Res.status = 200
       /\ Len(Res.values) = Len(Cmd.keys)
       /\ \A i \in 1..Len(Cmd.keys) : Res.values[i] = ValueOrDefault(Before(Cmd.keys[i]))

C3_Witness ==
    /\ Done /\ Cmd.op = "Hmget" /\ Len(Cmd.keys) = 2
    /\ IsValue(Before(Cmd.keys[1])) /\ Before(Cmd.keys[1]) # DefaultValue
    /\ ~IsValue(Before(Cmd.keys[2]))
    /\ Res.values = <<Before(Cmd.keys[1]), DefaultValue>>

\* C4: Hgetall answers 200 with empty values and, as pairs, exactly one pair
\* per key that holds a value, carrying the last value written to it.
C4_HgetallLastValues ==
    (Done /\ Cmd.op = "Hgetall")
    => LET present == {k \in Keys : IsValue(Before(k))}
       IN  /\ Res.status = 200
           /\ Res.values = <<>>
           /\ Range(Res.pairs) = {Kvpair(k, Before(k)) : k \in present}
           /\ Len(Res.pairs) = Cardinality(present)

C4_Witness ==
    /\ Done /\ Cmd.op = "Hgetall"
    /\ \E k \in Keys : Before(k) = Deleted
    /\ \E k \in Keys : Before(k) = StringValue(2)
    /\ Len(Res.pairs) = 1

\* C7: a request with no variant answers 400 with a message and with empty
\* values and pairs, and leaves the store as it was.
C7_NoVariantIsInvalidCommand ==
    (Done /\ Cmd.op = "None") => (IsError(Res, 400) /\ Store = pre /\ last = prelast)

C7_Witness ==
    Done /\ Cmd.op = "None" /\ DOMAIN pre # {} /\ Res.status = 400

\* C9: Hdel answers 200 with the removed value, or the default Value if the
\* key was absent; Hmdel answers 200 with one value per requested key, the
\* default Value at the later positions of a repeated key; once deleted, a
\* key answers 404 to Hget and false to Hexist until it is set again.
C9_DeleteReturnsRemoved ==
    /\ (Done /\ Cmd.op = "Hdel")
       => /\ Res.status = 200
          /\ Res.values = <<ValueOrDefault(Before(Cmd.key))>>
          /\ Cmd.table \in DOMAIN Store /\ Cmd.key \notin DOMAIN Store[Cmd.table]
    /\ (Done /\ Cmd.op = "Hmdel")
       => /\ Res.status = 200
          /\ Len(Res.values) = Len(Cmd.keys)
          /\ \A i \in 1..Len(Cmd.keys) :
                Res.values[i] = IF \E j \in 1..(i - 1) : Cmd.keys[j] = Cmd.keys[i]
                                THEN DefaultValue
                                ELSE ValueOrDefault(Before(Cmd.keys[i]))
          /\ \A i \in 1..Len(Cmd.keys) :
                Cmd.table \in DOMAIN Store /\ Cmd.keys[i] \notin DOMAIN Store[Cmd.table]
    /\ (Done /\ Cmd.op = "Hget" /\ Before(Cmd.key) = Deleted) => IsError(Res, 404)
    /\ (Done /\ Cmd.op = "Hexist" /\ Before(Cmd.key) = Deleted)
       => Res.values = <<BoolValue(FALSE)>>

C9_Witness ==
    /\ Done /\ Cmd.op = "Hmdel" /\ Len(Cmd.keys) = 2
    /\ Cmd.keys[1] = Cmd.keys[2]
    /\ Before(Cmd.keys[1]) = StringValue(1)
    /\ Res.values = <<StringValue(1), DefaultValue>>

\* C10: Hexist answers 200 with one boolean Value, true exactly when the key
\* was set and not deleted since; Hmexist answers 200 with one boolean Value
\* per requested key, in request order, an explicit false where the key is
\* absent.
C10_ExistReflectsStore ==
    /\ (Done /\ Cmd.op = "Hexist")
       => (Res.status = 200 /\ Res.values = <<BoolValue(IsValue(Before(Cmd.key)))>>)
    /\ (Done /\ Cmd.op = "Hmexist")
       => /\ Res.status = 200
          /\ Len(Res.values) = Len(Cmd.keys)
          /\ \A i \in 1..Len(Cmd.keys) :
                Res.values[i] = BoolValue(IsValue(Before(Cmd.keys[i])))

C10_Witness ==
    /\ Done /\ Cmd.op = "Hmexist" /\ Len(Cmd.keys) = 2
    /\ Before(Cmd.keys[1]) = DefaultValue
    /\ Before(Cmd.keys[2]) = Deleted
    /\ Res.values = <<BoolValue(TRUE), BoolValue(FALSE)>>

\* what a store holds under a key of a table: NoneOpt if the table or the key is not there
Contents(s, table, key) == IF table \in DOMAIN s THEN Lookup(s[table], key) ELSE NoneOpt
\* the keys of a list of pairs, position by position
PairKeys(pairs) == [i \in 1..Len(pairs) |-> pairs[i].key]
\* the positions before i of a batch that name the key of position i
Earlier(keys, i) == {j \in 1..(i - 1) : keys[j] = keys[i]}
Max(S) == CHOOSE x \in S : \A y \in S : y <= x

\* C11: Hmset applies its pairs one by one in request order and answers 200
\* with one value per pair: at position i the value the key of pair i held
\* right before pair i was applied (the value of the nearest earlier pair with
\* the same key, else what the key held before the command, else the default
\* Value); afterwards each key holds the value of its last occurrence.
C11_HmsetInRequestOrder ==
    (Done /\ Cmd.op = "Hmset")
    => LET ps == Cmd.pairs
           ks == PairKeys(ps)
       IN  /\ Res.status = 200
           /\ Len(Res.values) = Len(ps)
           /\ \A i \in 1..Len(ps) :
                 Res.values[i] = IF Earlier(ks, i) # {}
                                 THEN UnwrapOrDefault(ps[Max(Earlier(ks, i))].value)
                                 ELSE ValueOrDefault(Before(ks[i]))
           /\ \A i \in 1..Len(ps) :
                 (\A j \in (i + 1)..Len(ps) : ks[j] # ks[i])
                 => Contents(Store, Cmd.table, ks[i]) = UnwrapOrDefault(ps[i].value)

C11_Witness ==
    /\ Done /\ Cmd.op = "Hmset" /\ Len(Cmd.pairs) = 2
    /\ Cmd.pairs[1].key = Cmd.pairs[2].key
    /\ Before(Cmd.pairs[1].key) = StringValue(1)
    /\ Cmd.pairs[1].value = StringValue(2) /\ Cmd.pairs[2].value = NoneOpt
    /\ Res.values = <<StringValue(1), StringValue(2)>>
    /\ Contents(Store, Cmd.table, Cmd.pairs[1].key) = DefaultValue

\* how many values a command answers with: one per element
Elements(c) ==
    CASE c.op \in {"Hmget", "Hmdel", "Hmexist"} -> Len(c.keys)
      [] c.op = "Hmset" -> Len(c.pairs)
      [] OTHER -> 1

\* C12, as claimed: whenever dispatch answers 200, message is empty and
\* exactly one of values and pairs is non-empty.
C12_ExactlyOneNonEmpty ==
    (Done /\ dres["main"].status = 200)
    => /\ dres["main"].message = <<>>
       /\ (dres["main"].values # <<>>) # (dres["main"].pairs # <<>>)

\* C12, amended: whenever dispatch answers 200, message is empty and at most
\* one of values and pairs is non-empty: Hgetall answers no values and one
\* pair per entry of the table, every other command answers no pairs and one
\* value per element; both are empty for Hgetall of a table with no entries
\* and for a batch of no elements.
C12_AtMostOneNonEmpty ==
    (Done /\ dres["main"].status = 200)
    => /\ dres["main"].message = <<>>
       /\ Cmd.op = "Hgetall"
          => /\ dres["main"].values = <<>>
             /\ Len(dres["main"].pairs) = Cardinality({k \in Keys : IsValue(Before(k))})
       /\ Cmd.op # "Hgetall"
          => /\ dres["main"].pairs = <<>>
             /\ Len(dres["main"].values) = Elements(Cmd)

C12_Witness ==
    /\ Done /\ Cmd.op = "Hgetall" /\ dres["main"].status = 200
    /\ Len(dres["main"].pairs) = 2 /\ dres["main"].values = <<>>

\* C17: an Hset that carries no pair answers 200 with an empty message and
\* the one default Value, makes no Storage call (not even its table is
\* created) and leaves every table as it was.
C17_HsetNoPairIsNoOp ==
    (Done /\ Cmd.op = "Hset" /\ Cmd.pair = NoneOpt)
    => /\ Res = [status |-> 200, message |-> <<>>,
                 values |-> <<DefaultValue>>, pairs |-> <<>>]
       /\ Store = pre
       /\ last = prelast

C17_Witness ==
    /\ Done /\ Cmd.op = "Hset" /\ Cmd.pair = NoneOpt
    /\ Cmd.table \notin DOMAIN pre
    /\ \E t \in DOMAIN pre : DOMAIN pre[t] # {}
    /\ Res.values = <<DefaultValue>> /\ Store = pre

ReadOnly == {"Hget", "Hmget", "Hgetall", "Hexist", "Hmexist"}
\* the keys a writing command names
Named(c) ==
    CASE c.op = "Hset" -> IF c.pair = NoneOpt THEN {} ELSE {c.pair.key}
      [] c.op = "Hmset" -> Range(PairKeys(c.pairs))
      [] c.op = "Hdel" -> {c.key}
      [] c.op \in {"Hmdel"} -> Range(c.keys)
      [] OTHER -> {}

\* C19: a read-only command (and a request with no variant) leaves what every
\* key of every table holds as it was, also when its table did not exist yet;
\* Hset, Hmset, Hdel and Hmdel on a table change nothing but the keys they
\* name in that table, so the same key in another table keeps its own value.
C19_Frame ==
    Done =>
    \A t \in Tables, k \in Keys :
        (Cmd.op \in ReadOnly \cup {"None"} \/ t # Cmd.table \/ k \notin Named(Cmd))
        => Contents(Store, t, k) = Contents(pre, t, k)

C19_Witness ==
    /\ Done /\ Cmd.op = "Hset" /\ Cmd.table = "t1" /\ Cmd.pair # NoneOpt
    /\ Cmd.pair.key = "k1"
    /\ Contents(pre, "t2", "k1") = StringValue(1)
    /\ Contents(pre, "t1", "k2") = DefaultValue
    /\ Contents(Store, "t1", "k1") = StringValue(2)
    /\ Contents(Store, "t2", "k1") = StringValue(1)
    /\ Contents(Store, "t1", "k2") = DefaultValue

(***************************************************************************)
(* Properties of dispatch over a Storage that may fail (SpecFaults).       *)
(***************************************************************************)
\* the single Storage call of main's last command failed
CallFailed == Done /\ Cmd.op \in {"Hget", "Hset", "Hdel", "Hexist", "Hgetall"}
                   /\ Len(failed) = 1 /\ failed[1]
\* what the store held under a key of the command's table when the command began
Held(key) == UnwrapOrDefault(Contents(pre, Cmd.table, key))
\* the positions before i of a batch that name the key of position i and did not fail
EarlierApplied(keys, i) == {j \in Earlier(keys, i) : ~failed[j]}

\* C13: execute always returns a response, whatever the Storage calls did;
\* when the Storage call of Hget, Hset, Hdel, Hexist or Hgetall fails, the
\* response has an error status, a message, and neither values nor pairs.
C13_ErrorsBecomeResponses ==
    /\ Done => Res.status \in {200, 400, 404, 500}
    /\ CallFailed
       => /\ Res.status # 200
          /\ Len(Res.message) > 0
          /\ Res.values = <<>> /\ Res.pairs = <<>>

C13_Witness ==
    /\ CallFailed /\ Cmd.op = "Hset"
    /\ Contents(pre, Cmd.table, Cmd.pair.key) = StringValue(1)
    /\ Res.status = 500 /\ Res.values = <<>>

\* C16: a batch command of N elements answers 200 with N values whichever of
\* its Storage calls fail: the default Value at each failed position, and at
\* every other position what the command answers there when nothing fails,
\* the failed elements counting as not in the batch; the writes and deletes
\* of the elements that did not fail are applied.
C16_BatchFaultTolerant ==
    (Done /\ Cmd.op \in {"Hmget", "Hmset", "Hmdel", "Hmexist"})
    => LET ks == IF Cmd.op = "Hmset" THEN PairKeys(Cmd.pairs) ELSE Cmd.keys
           n == Len(ks)
           applied == {i \in 1..n : ~failed[i]}
           lastOf(k) == Max({i \in applied : ks[i] = k})
       IN  /\ Res.status = 200 /\ Res.message = <<>> /\ Res.pairs = <<>>
           /\ Len(Res.values) = n
           /\ \A i \in 1..n : failed[i] => Res.values[i] = DefaultValue
           /\ \A i \in applied :
                 Res.values[i] =
                    CASE Cmd.op = "Hmget" -> Held(ks[i])
                      [] Cmd.op = "Hmexist" ->
                            BoolValue(Contents(pre, Cmd.table, ks[i]) # NoneOpt)
                      [] Cmd.op = "Hmdel" ->
                            IF EarlierApplied(ks, i) # {} THEN DefaultValue ELSE Held(ks[i])
                      [] Cmd.op = "Hmset" ->
                            IF EarlierApplied(ks, i) # {}
                            THEN UnwrapOrDefault(Cmd.pairs[Max(EarlierApplied(ks, i))].value)
                            ELSE Held(ks[i])
           /\ \A k \in Keys :
                 Contents(Store, Cmd.table, k) =
                    IF \E i \in applied : ks[i] = k
                    THEN CASE Cmd.op = "Hmset" -> UnwrapOrDefault(Cmd.pairs[lastOf(k)].value)
                           [] Cmd.op = "Hmdel" -> NoneOpt
                           [] OTHER -> Contents(pre, Cmd.table, k)
                    ELSE Contents(pre, Cmd.table, k)

C16_Witness ==
    /\ Done /\ Cmd.op = "Hmset" /\ failed = <<TRUE, FALSE>>
    /\ Cmd.pairs[1].key # Cmd.pairs[2].key
    /\ Contents(pre, "t1", Cmd.pairs[1].key) = StringValue(1)
    /\ Contents(pre, "t1", Cmd.pairs[2].key) = StringValue(1)
    /\ Cmd.pairs[2].value = StringValue(2)
    /\ Res.values = <<DefaultValue, StringValue(1)>>
    /\ Contents(Store, "t1", Cmd.pairs[1].key) = StringValue(1)
    /\ Contents(Store, "t1", Cmd.pairs[2].key) = StringValue(2)

(***************************************************************************)
(* Properties of the hook pipeline (SpecHooks).                            *)
(***************************************************************************)
\* C6: the caller of execute gets the response as the on_before_send hooks
\* left it: a hook that overwrites status is observed (the last registered
\* one wins), while message, values, pairs and the store are what a Service
\* with no hooks gives for the same request on the same store.
C6_BeforeSendObserved ==
    Done =>
    LET hooks == heap[service["main"]].on_before_send
    IN  /\ hooks # <<>> =>
              Res.status = IF hooks[Len(hooks)] = "created" THEN 201 ELSE 202
        /\ \E order \in Orders(Cmd) :
              LET plain == ServiceExecute(ServiceInnerNew(pre), Cmd, NoFaults(Cmd), order)
              IN  /\ Res.message = plain.res.message
                  /\ Res.values = plain.res.values
                  /\ Res.pairs = plain.res.pairs
                  /\ Store = plain.store
                  /\ hooks = <<>> => Res.status = plain.res.status

C6_Witness ==
    /\ Done /\ Cmd.op = "Hset" /\ Cmd.pair # NoneOpt
    /\ heap[service["main"]].on_before_send = <<"created">>
    /\ Res.status = 201 /\ Res.message = <<>> /\ Res.values = <<DefaultValue>>

\* the status an on_before_send hook leaves
StatusOf(f) == BeforeSendHook(f, NoResponse).status
\* the positions of the trace where a hook of the given point ran
EventsAt(point) == {i \in 1..Len(trace) : trace[i].at = point}

\* C14: within one execute, the on_received hooks run in registration order,
\* then the command is dispatched to the store, then the on_executed hooks
\* run on dispatch's response, then the on_before_send hooks run in
\* registration order, each on what the one before it left; the caller gets
\* the response as the last of them left it, and exactly dispatch's response
\* when no hook is registered.
C14_HookOrder ==
    Done =>
    LET inner == heap[service["main"]]
        nr == Len(inner.on_received)
        ne == Len(inner.on_executed)
        nb == Len(inner.on_before_send)
    IN  /\ Len(trace) = nr + 1 + ne + nb
        /\ \A i \in 1..nr :
              trace[i].at = "on_received" /\ trace[i].f = inner.on_received[i]
        /\ trace[nr + 1].at = "dispatch" /\ trace[nr + 1].f = Cmd.op
        /\ \A i \in 1..ne :
              LET e == trace[nr + 1 + i]
              IN  /\ e.at = "on_executed" /\ e.f = inner.on_executed[i]
                  /\ e.seen = dres["main"].status
        /\ \A i \in 1..nb :
              LET e == trace[nr + 1 + ne + i]
              IN  /\ e.at = "on_before_send" /\ e.f = inner.on_before_send[i]
                  /\ e.seen = IF i = 1 THEN dres["main"].status
                              ELSE StatusOf(inner.on_before_send[i - 1])
        /\ nb > 0 => Res = [dres["main"] EXCEPT !.status = StatusOf(inner.on_before_send[nb])]
        /\ HookCount(inner) = 0 => Res = dres["main"]

C14_Witness ==
    /\ Done /\ Cmd.op = "Hget"
    /\ heap[service["main"]].on_received = <<"log_request", "on_received">>
    /\ Len(trace) = 3
    /\ trace[1].f = "log_request" /\ trace[2].f = "on_received"
    /\ trace[3].at = "dispatch"
    /\ Res.status = 404

\* C15, as claimed: in every execute each registered on_after_send hook is
\* invoked once, after the on_before_send hooks of that call.
C15_AfterSendInvokedOnce ==
    Done =>
    LET hooks == heap[service["main"]].on_after_send
    IN  /\ Cardinality(EventsAt("on_after_send")) = Len(hooks)
        /\ \A i \in EventsAt("on_after_send") :
              /\ trace[i].f \in Range(hooks)
              /\ \A j \in EventsAt("on_before_send") : j < i

(***************************************************************************)
(* Properties of the shared Service under concurrent callers (SpecConc).   *)
(***************************************************************************)
Quiescent == \A t \in Threads : pc[t] # "dispatch"
Returned(t, op) == pc[t] = "done" /\ cmd[t].op = op
\* Hgetall of the table through the handle of thread t, issued now
HgetallNow(t, order) ==
    HgetallExecute(Hgetall("t1"), heap[service[t]].store, <<FALSE>>, order).res

\* C5: every Hset returns a success response, whatever it ran together
\* with; and once no call is in flight, Hgetall holds the pair of every
\* returned Hset whose key no later write or delete has touched (so, of all
\* of them when their keys are pairwise distinct).
C5_NoLostWrites ==
    /\ \A t \in Threads : Returned(t, "Hset") => res[t].status = 200
    /\ Quiescent =>
          \A order \in KeyOrders :
             LET all == HgetallNow("main", order)
             IN  /\ all.status = 200
                 /\ \A t \in Threads :
                       (/\ Returned(t, "Hset")
                        /\ \A u \in Threads \ {t} :
                              Returned(u, "Hset") => KeyOf(cmd[u]) # KeyOf(cmd[t])
                        /\ last[<<cmd[t].table, KeyOf(cmd[t])>>] = ValueOf(t))
                       => cmd[t].pair \in Range(all.pairs)

C5_Witness ==
    /\ Quiescent
    /\ Returned("w1", "Hset") /\ Returned("w2", "Hset")
    /\ raced["w1"] /\ raced["w2"]
    /\ KeyOf(cmd["w1"]) # KeyOf(cmd["w2"])
    /\ \A order \in KeyOrders :
          Range(HgetallNow("main", order).pairs) = {cmd["w1"].pair, cmd["w2"].pair}

\* C8: every handle points at the one ServiceInner, so a read through any
\* handle answers with the last write completed through any handle: Hget
\* gives the value last set (404 if the key was deleted or never set),
\* Hexist gives whether one is set, Hgetall gives exactly the pairs set.
C8_ClonesShareStore ==
    /\ \A t \in Threads : service[t] # 0 => service[t] = service["main"]
    /\ \A t \in Threads :
          /\ Returned(t, "Hget") =>
                res[t] = IF IsValue(seen[t]) THEN ValueToResponse(seen[t])
                         ELSE ErrorToResponse(NotFound(cmd[t].table, cmd[t].key))
          /\ Returned(t, "Hexist") =>
                res[t] = ValueToResponse(BoolValue(IsValue(seen[t])))
          /\ (Quiescent /\ service[t] # 0) =>
                \A order \in KeyOrders :
                   Range(HgetallNow(t, order).pairs)
                   = {Kvpair(k, last[<<"t1", k>>]) :
                        k \in {x \in Keys : IsValue(last[<<"t1", x>>])}}

C8_Witness ==
    /\ Returned("w1", "Hset") /\ Returned("main", "Hget")
    /\ cmd["main"].key = KeyOf(cmd["w1"])
    /\ seen["main"] = StringValue(1)
    /\ res["main"].values = <<StringValue(1)>>
(***************************************************************************)
(* Properties of the SledDB adapter (SpecSled).                            *)
(***************************************************************************)
\* the entries of the scanned tree, as the scan found them
Scanned == TreeEntries(TreeOf(scall.before, scall.table), SledKeyOrder)
\* the call returned Err
ReturnedErr == ~scall.result.ok /\ scall.result # Panicked

\* C18, as claimed, for a scan whose tree opens: get_all and get_iter return
\* successfully with one Kvpair per entry of the tree, the default Kvpair in
\* the place of an entry whose value bytes do not decode or whose read
\* fails, the real key and value for every other entry.
C18_ScanLossyButTotal ==
    (scall.op \in {"get_all", "get_iter"} /\ scall.result # Err(BackendError))
    => /\ scall.result.ok
       /\ Len(scall.result.val) = Len(Scanned)
       /\ \A i \in 1..Len(Scanned) :
             scall.result.val[i] =
                IF ~scall.reads[i] /\ Scanned[i][2] # Malformed
                THEN Kvpair(Scanned[i][1], Scanned[i][2].of)
                ELSE KvpairDefault

\* C20, as claimed: whenever set or del returns an error, every key of the
\* table holds what it held before the call.
C20_ErrorLeavesTableUnchanged ==
    (scall.op \in {"set", "del"} /\ ReturnedErr)
    => \A k \in SledKeys :
          TreeGet(TreeOf(sled, scall.table), k) = TreeGet(TreeOf(scall.before, scall.table), k)

====
